---- MODULE Spec2Model ----
(***************************************************************************)
(* Model of src/property_scraper.py: DownloadManager.run (main thread),    *)
(* DownloadManager.Worker.run (worker threads), PropertyScraper (fetch and *)
(* extraction of one page) and the sqlite listings table.                  *)
(***************************************************************************)
EXTENDS Integers, Sequences, FiniteSets, TLC

\* ------------------------------------------------------------------ bounds
MaxUrls == 2
MaxConn == 2
MaxAmenities == 3

\* ------------------------------------------------------- program constants
ConnLimit == 10000
DefaultConn == 10
PayloadIndex == 2
StripLead == 4
StripTrail == 3

\* ------------------------------------------------ the remote site (inputs)
\* The text of a script element: four characters "<!--", one chunk standing
\* for the characters in between, three characters "-->".
Wrap(chunk) == <<"<", "!", "-", "-", chunk, "-", "-", ">">>

Amenity(n, p) == [name |-> n, is_present |-> p]

FullListing(nm, ams) ==
    [name |-> nm,
     market |-> "Denver",
     review_details_interface |-> [review_score |-> 95, review_count |-> 7],
     room_and_property_type |-> "Entire home",
     bed_label |-> "2 beds",
     bathroom_label |-> "1 bath",
     guest_label |-> "4 guests",
     price_formatted_for_embed |-> "$100",
     photos |-> << [large_cover |-> <<"img.jpg", "?", "w=1">>] >>,
     description |-> "d",
     listing_amenities |-> ams]

\* the same listing without its "market" key
PartialListing(nm, ams) ==
    [f \in (DOMAIN FullListing(nm, ams)) \ {"market"} |-> FullListing(nm, ams)[f]]

Json(l) == [valid |-> TRUE, value |-> [bootstrapData |-> [listing |-> l]]]
Garbage == [valid |-> FALSE, value |-> [bootstrapData |-> [listing |-> [x |-> 0]]]]
Script(chunk) == [text |-> Wrap(chunk)]
Filler == Script(Json([x |-> 0]))

Page(third) == [error |-> "none", scripts |-> <<Filler, Filler, third>>]

UrlOkA == "http://a/ok"
UrlOkB == "http://b/ok"
UrlNoScheme == "a/noscheme"
UrlDown == "http://a/down"
UrlThrottled == "http://a/throttled"
UrlBadJson == "http://a/badjson"
UrlNoField == "http://a/nofield"

UrlNames == {UrlOkA, UrlOkB, UrlNoScheme, UrlDown, UrlThrottled, UrlBadJson, UrlNoField}

\* two more URLs, used by the end-to-end scenarios only
UrlOkC == "http://c/ok"
UrlFtp == "ftp://example.com/x"

AllUrls == UrlNames \cup {UrlOkC, UrlFtp}

\* What requests.get does for each URL of the input universe.
Site(u) ==
    CASE u = UrlOkA -> Page(Script(Json(FullListing("A", <<Amenity("Wifi", TRUE), Amenity("Pool", FALSE)>>))))
      [] u = UrlOkB -> Page(Script(Json(FullListing("B", <<Amenity("Pool", FALSE), Amenity("TV", TRUE), Amenity("Wifi", TRUE)>>))))
      [] u = UrlNoScheme -> [error |-> "MissingSchema", scripts |-> <<>>]
      [] u = UrlDown -> [error |-> "ConnectionError", scripts |-> <<>>]
      [] u = UrlThrottled -> [error |-> "none", scripts |-> <<Filler, Filler>>]
      [] u = UrlBadJson -> Page(Script(Garbage))
      [] u = UrlNoField -> Page(Script(Json(PartialListing("N", <<Amenity("Wifi", TRUE)>>))))
      [] u = UrlOkC -> Page(Script(Json(FullListing("C", <<>>))))
      [] u = UrlFtp -> [error |-> "InvalidSchema", scripts |-> <<>>]


\* -------------------------------------------------- PropertyScraper (pure)
\* text[4:-3]
Strip(text) == SubSeq(text, StripLead + 1, Len(text) - StripTrail)

\* json.loads: the stripped text decodes iff it is exactly one valid chunk
JsonLoads(s) ==
    IF Len(s) = 1 /\ s[1].valid
    THEN [exc |-> "none", value |-> s[1].value]
    ELSE [exc |-> "JSONDecodeError", value |-> [none |-> TRUE]]

\* PropertyScraper.__get_full_site_json on a fetched page
GetFullSiteJson(page) ==
    IF Len(page.scripts) < PayloadIndex + 1
    THEN [exc |-> "IndexError", value |-> [none |-> TRUE]]
    ELSE JsonLoads(Strip(page.scripts[PayloadIndex + 1].text))

\* PropertyScraper.get_listing_json / __set_listing
SetListing(page) ==
    LET j == GetFullSiteJson(page) IN
    IF j.exc # "none" THEN j
    ELSE IF "bootstrapData" \notin DOMAIN j.value THEN [exc |-> "KeyError", value |-> [none |-> TRUE]]
    ELSE IF "listing" \notin DOMAIN j.value.bootstrapData THEN [exc |-> "KeyError", value |-> [none |-> TRUE]]
    ELSE [exc |-> "none", value |-> j.value.bootstrapData.listing]

\* ------------------------------------------------ Worker.__store_db (pure)
\* mutant: the presence flag is not looked at
PresentAmenities_All(ams) == [i \in 1 .. Len(ams) |-> ams[i].name]

RECURSIVE PresentAmenities(_)
PresentAmenities(ams) ==
    IF ams = <<>> THEN <<>>
    ELSE IF Head(ams).is_present
         THEN <<Head(ams).name>> \o PresentAmenities(Tail(ams))
         ELSE PresentAmenities(Tail(ams))

\* ','.join(names)
RECURSIVE JoinComma(_)
JoinComma(names) ==
    IF names = <<>> THEN <<>>
    ELSE IF Len(names) = 1 THEN names
    ELSE <<Head(names), ",">> \o JoinComma(Tail(names))

\* s.split('?')[0]
RECURSIVE SplitFirst(_)
SplitFirst(s) ==
    IF s = <<>> \/ Head(s) = "?" THEN <<>>
    ELSE <<Head(s)>> \o SplitFirst(Tail(s))

RequiredFields ==
    {"listing_amenities", "name", "market", "review_details_interface",
     "room_and_property_type", "bed_label", "bathroom_label", "guest_label",
     "price_formatted_for_embed", "photos", "description"}

\* the 13 values bound to the insert statement
RowOf(url, listing) ==
    <<url,
      listing.name,
      listing.market,
      ToString(listing.review_details_interface.review_score),
      ToString(listing.review_details_interface.review_count),
      listing.room_and_property_type,
      listing.bed_label,
      listing.bathroom_label,
      listing.guest_label,
      listing.price_formatted_for_embed,
      SplitFirst(listing.photos[1].large_cover),
      listing.description,
      JoinComma(PresentAmenities(listing.listing_amenities))>>


\* ------------------------------------------------------------------- state
VARIABLES
    urls,        \* DownloadManager.urls: the input (a file's lines or one literal)
    conn,        \* DownloadManager.conn: requested concurrency
    queue,       \* DownloadManager.queue: FIFO of pending URLs
    threads,     \* DownloadManager.threads: one record per spawned Worker
    table,       \* whether table listings exists in the database file
    rows,        \* committed rows of table listings
    rows0,       \* history: the rows the database file held before this run
    mainpc,      \* position of the main thread inside DownloadManager.run
    n_conn,      \* local n_conn of DownloadManager.run
    joined,      \* number of threads already joined by run's last loop
    stderr,      \* messages written to sys.stderr
    exitStatus,  \* <<>> while the process lives, <<status>> once it has ended
    taken        \* history: how often each URL has been returned by get_nowait

vars == <<urls, conn, rows0, table, queue, threads, rows, mainpc, n_conn, joined, stderr, exitStatus, taken>>

MsgNoUrls == "No URLs given"
MsgBadConn == "invalid number of concurrent connections"
MsgThrottled == "Experiencing throttling from Airbnb. Stopping."

NoListing == [none |-> TRUE]

\* a row left in the table by an earlier run
OldRow == RowOf(UrlOkA, FullListing("A", <<Amenity("Wifi", TRUE), Amenity("Pool", FALSE)>>))

\* A line of text is a sequence of chunks: a URL is one chunk, "#" one
\* character, Blank and Newline whitespace.
Newline == "\n"
Blank == " "
Whitespace == {Newline, Blank}

UrlLine(u) == <<u, Newline>>
CommentLine == <<"#", UrlOkA, Newline>>
EmptyLine == <<Newline>>
PaddedLine(u) == <<Blank, u, Blank, Newline>>

\* validators.url on the input universe
ValidUrl(l) == Len(l) = 1 /\ l[1] \in AllUrls \ {UrlNoScheme}

\* str.strip
RECURSIVE LStrip(_)
LStrip(l) == IF l # <<>> /\ Head(l) \in Whitespace THEN LStrip(Tail(l)) ELSE l

RECURSIVE RStrip(_)
RStrip(l) ==
    IF l # <<>> /\ l[Len(l)] \in Whitespace THEN RStrip(SubSeq(l, 1, Len(l) - 1)) ELSE l

StripLine(l) == RStrip(LStrip(l))

\* the loop of __process_input: the queue built from the lines
RECURSIVE QueueOf(_)
QueueOf(lines) ==
    IF lines = <<>> THEN <<>>
    ELSE LET url == StripLine(Head(lines)) IN
         IF url = <<>> \/ url[1] = "#" THEN QueueOf(Tail(lines))
         ELSE <<url[1]>> \o QueueOf(Tail(lines))

\* DownloadManager.__process_input
ProcessInput(u) ==
    IF u.isfile THEN QueueOf(u.lines)
    ELSE IF ValidUrl(u.lines[1]) THEN QueueOf(<<StripLine(u.lines[1])>>)
    ELSE QueueOf(<<>>)

RECURSIVE SeqsUpTo(_, _)
SeqsUpTo(S, n) ==
    IF n = 0 THEN {<<>>}
    ELSE LET shorter == SeqsUpTo(S, n - 1) IN
         shorter \cup {Append(q, x) : q \in {r \in shorter : Len(r) = n - 1}, x \in S}

\* files of URL lines, two files with lines the loop skips, single literals
Inputs ==
    {[isfile |-> TRUE, lines |-> l] : l \in SeqsUpTo({UrlLine(u) : u \in UrlNames}, MaxUrls)}
    \cup {[isfile |-> TRUE, lines |-> <<CommentLine, EmptyLine>>],
          [isfile |-> TRUE, lines |-> <<CommentLine, PaddedLine(UrlOkB), EmptyLine>>]}
    \cup {[isfile |-> FALSE, lines |-> << <<u>> >>] : u \in UrlNames}

ConnChoices == -1 .. MaxConn

Init ==
    /\ urls \in Inputs
    /\ conn \in ConnChoices
    /\ queue = ProcessInput(urls)
    /\ threads = <<>>
    /\ table = TRUE
    /\ rows \in {<<>>, <<OldRow>>}
    /\ rows0 = rows
    /\ mainpc = "start"
    /\ n_conn = 0
    /\ joined = 0
    /\ stderr = {}
    /\ exitStatus = <<>>
    /\ taken = [u \in AllUrls |-> 0]


\* -------------------------------------------------- DownloadManager.run
Min(a, b) == IF a <= b THEN a ELSE b

\* mutant: the requested concurrency is not clamped to the number of URLs
NConn_NoClamp(c, n) == c

NConn(c, n) == Min(c, n)

ValidConn(n) == 1 <= n /\ n <= ConnLimit

\* mutant: the empty queue is reported but run goes on
CheckUrls_NoExit ==
    /\ mainpc = "start"
    /\ stderr' = IF queue = <<>> THEN stderr \cup {MsgNoUrls} ELSE stderr
    /\ mainpc' = "check_conn"
    /\ UNCHANGED <<urls, conn, rows0, table, queue, threads, rows, n_conn, joined, exitStatus, taken>>

\* assert self.queue.queue ... except AssertionError: sys.exit()
CheckUrls ==
    /\ mainpc = "start"
    /\ IF queue = <<>>
       THEN /\ stderr' = stderr \cup {MsgNoUrls}
            /\ mainpc' = "exited"
            /\ exitStatus' = <<0>>
       ELSE /\ mainpc' = "check_conn"
            /\ UNCHANGED <<stderr, exitStatus>>
    /\ UNCHANGED <<urls, conn, rows0, table, queue, threads, rows, n_conn, joined, taken>>

\* n_conn = min(...); assert 1 <= n_conn <= 10000 ... except AssertionError: write
CheckConn ==
    /\ mainpc = "check_conn"
    /\ n_conn' = NConn(conn, Len(queue))
    /\ stderr' = IF ValidConn(n_conn') THEN stderr ELSE stderr \cup {MsgBadConn}
    /\ mainpc' = "spawn"
    /\ UNCHANGED <<urls, conn, rows0, table, queue, threads, rows, joined, exitStatus, taken>>

NewWorker == [pc |-> "get", url |-> "", listing |-> NoListing, txn |-> <<>>, exc |-> "none"]

\* one iteration of: for url in range(n_conn): Worker(...).start(); append
Spawn ==
    /\ mainpc = "spawn"
    /\ Len(threads) < n_conn
    /\ threads' = Append(threads, NewWorker)
    /\ UNCHANGED <<urls, conn, rows0, table, queue, rows, mainpc, n_conn, joined, stderr, exitStatus, taken>>

\* the spawn loop is over: print('Scraping begins...')
BeginJoin ==
    /\ mainpc = "spawn"
    /\ ~(Len(threads) < n_conn)
    /\ mainpc' = "join"
    /\ UNCHANGED <<urls, conn, rows0, table, queue, threads, rows, n_conn, joined, stderr, exitStatus, taken>>

\* mutant: join returns without waiting for the thread
Join_NoWait ==
    /\ mainpc = "join"
    /\ joined < Len(threads)
    /\ joined' = joined + 1
    /\ UNCHANGED <<urls, conn, rows0, table, queue, threads, rows, mainpc, n_conn, stderr, exitStatus, taken>>

\* thread.join() returns once that thread has ended
Join ==
    /\ mainpc = "join"
    /\ joined < Len(threads)
    /\ threads[joined + 1].pc = "exited"
    /\ joined' = joined + 1
    /\ UNCHANGED <<urls, conn, rows0, table, queue, threads, rows, mainpc, n_conn, stderr, exitStatus, taken>>

\* run returns, main returns, the interpreter ends
Return ==
    /\ mainpc = "join"
    /\ joined = Len(threads)
    /\ mainpc' = "done"
    /\ exitStatus' = <<0>>
    /\ UNCHANGED <<urls, conn, rows0, table, queue, threads, rows, n_conn, joined, stderr, taken>>


\* ------------------------------------------------ DownloadManager.Worker.run
Workers == 1 .. Len(threads)

\* the thread's run method is left: by break, or by an exception nothing catches
Ended(t, e) == [t EXCEPT !.pc = "exited", !.exc = e]

\* url = self.queue.get_nowait() / except Queue.Empty: break
WorkerGet(w) ==
    /\ threads[w].pc = "get"
    /\ IF queue = <<>>
       THEN /\ threads' = [threads EXCEPT ![w] = Ended(@, "none")]
            /\ UNCHANGED <<queue, taken>>
       ELSE /\ threads' = [threads EXCEPT ![w].url = Head(queue), ![w].pc = "fetch"]
            /\ queue' = Tail(queue)
            /\ taken' = [taken EXCEPT ![Head(queue)] = @ + 1]
    /\ UNCHANGED <<urls, conn, rows0, table, rows, mainpc, n_conn, joined, stderr, exitStatus>>

\* mutant: a URL whose fetch failed is put back into the queue
WorkerFetch_Requeue(w) ==
    /\ threads[w].pc = "fetch"
    /\ LET page == Site(threads[w].url) IN
       IF page.error = "none"
       THEN /\ threads' = [threads EXCEPT ![w].pc = "extract"]
            /\ queue' = queue
       ELSE /\ threads' = [threads EXCEPT ![w].pc = "get"]
            /\ queue' = Append(queue, threads[w].url)
    /\ UNCHANGED <<urls, conn, rows0, table, rows, mainpc, n_conn, joined, stderr, exitStatus, taken>>

\* PropertyScraper.__init__: self.html = requests.get(url); MissingSchema is
\* caught and answered with exit(), which raises SystemExit in this thread
WorkerFetch(w) ==
    /\ threads[w].pc = "fetch"
    /\ LET page == Site(threads[w].url) IN
       threads' = [threads EXCEPT ![w] =
                     IF page.error = "MissingSchema" THEN Ended(@, "SystemExit")
                     ELSE IF page.error # "none" THEN Ended(@, page.error)
                     ELSE [@ EXCEPT !.pc = "extract"]]
    /\ UNCHANGED <<urls, conn, rows0, table, queue, rows, mainpc, n_conn, joined, stderr, exitStatus, taken>>

\* PropertyScraper.__init__: self.listing = self.__set_listing(); IndexError
\* is caught, reported and answered with sys.exit() in this thread
WorkerExtract(w) ==
    /\ threads[w].pc = "extract"
    /\ LET r == SetListing(Site(threads[w].url)) IN
       /\ threads' = [threads EXCEPT ![w] =
                        IF r.exc = "IndexError" THEN Ended(@, "SystemExit")
                        ELSE IF r.exc # "none" THEN Ended(@, r.exc)
                        ELSE [@ EXCEPT !.listing = r.value, !.pc = "store"]]
       /\ stderr' = IF r.exc = "IndexError" THEN stderr \cup {MsgThrottled} ELSE stderr
    /\ UNCHANGED <<urls, conn, rows0, table, queue, rows, mainpc, n_conn, joined, exitStatus, taken>>

\* sqlite admits one writing transaction at a time; the others wait
WriteLockFree(w) == \A v \in Workers : v # w => threads[v].txn = <<>>

\* mutant: a listing with missing attributes is inserted as a row of its url only
WorkerInsert_Partial(w) ==
    /\ threads[w].pc = "store"
    /\ WriteLockFree(w)
    /\ threads' = [threads EXCEPT
                     ![w].txn = IF RequiredFields \subseteq DOMAIN threads[w].listing
                                THEN <<RowOf(threads[w].url, threads[w].listing)>>
                                ELSE << <<threads[w].url>> >>,
                     ![w].pc = "commit"]
    /\ UNCHANGED <<urls, conn, rows0, table, queue, rows, mainpc, n_conn, joined, stderr, exitStatus, taken>>

\* __store_db up to c.execute: a missing attribute raises AttributeError
WorkerInsert(w) ==
    /\ threads[w].pc = "store"
    /\ IF RequiredFields \subseteq DOMAIN threads[w].listing
       THEN /\ WriteLockFree(w)
            /\ threads' = [threads EXCEPT ![w].txn = <<RowOf(threads[w].url, threads[w].listing)>>,
                                          ![w].pc = "commit"]
       ELSE threads' = [threads EXCEPT ![w] = Ended(@, "AttributeError")]
    /\ UNCHANGED <<urls, conn, rows0, table, queue, rows, mainpc, n_conn, joined, stderr, exitStatus, taken>>

\* mutant: the commit writes the row twice
WorkerCommit_Twice(w) ==
    /\ threads[w].pc = "commit"
    /\ rows' = rows \o threads[w].txn \o threads[w].txn
    /\ threads' = [threads EXCEPT ![w].txn = <<>>, ![w].pc = "get"]
    /\ UNCHANGED <<urls, conn, rows0, table, queue, mainpc, n_conn, joined, stderr, exitStatus, taken>>

\* mutant: the insert is left uncommitted when the worker takes its next URL
WorkerCommit_Deferred(w) ==
    /\ threads[w].pc = "commit"
    /\ threads' = [threads EXCEPT ![w].pc = "get"]
    /\ UNCHANGED <<urls, conn, rows0, table, queue, rows, mainpc, n_conn, joined, stderr, exitStatus, taken>>

\* mutant: a row whose url is already in the table replaces that row
WorkerCommit_Upsert(w) ==
    /\ threads[w].pc = "commit"
    /\ LET new == threads[w].txn[1]
           old == {i \in 1 .. Len(rows) : rows[i][1] = new[1]} IN
       rows' = IF old = {} THEN Append(rows, new)
               ELSE [i \in 1 .. Len(rows) |-> IF i \in old THEN new ELSE rows[i]]
    /\ threads' = [threads EXCEPT ![w].txn = <<>>, ![w].pc = "get"]
    /\ UNCHANGED <<urls, conn, rows0, table, queue, mainpc, n_conn, joined, stderr, exitStatus, taken>>

\* self.db_conn.commit(); c.close(); back to the top of the loop
WorkerCommit(w) ==
    /\ threads[w].pc = "commit"
    /\ rows' = rows \o threads[w].txn
    /\ threads' = [threads EXCEPT ![w].txn = <<>>, ![w].pc = "get"]
    /\ UNCHANGED <<urls, conn, rows0, table, queue, mainpc, n_conn, joined, stderr, exitStatus, taken>>

Next ==
    \/ CheckUrls
    \/ CheckConn
    \/ Spawn
    \/ BeginJoin
    \/ Join
    \/ Return
    \/ \E w \in Workers : WorkerGet(w)
    \/ \E w \in Workers : WorkerFetch(w)
    \/ \E w \in Workers : WorkerExtract(w)
    \/ \E w \in Workers : WorkerInsert(w)
    \/ \E w \in Workers : WorkerCommit(w)

Spec == Init /\ [][Next]_vars

TypeOK ==
    /\ mainpc \in {"new", "start", "check_conn", "spawn", "join", "done", "exited"}
    /\ joined \in 0 .. Len(threads)
    /\ \A w \in Workers : threads[w].pc \in {"get", "fetch", "extract", "store", "commit", "exited"}


\* ------------------------------------------------------------- properties
RECURSIVE Count(_, _)
Count(x, q) ==
    IF q = <<>> THEN 0
    ELSE (IF Head(q) = x THEN 1 ELSE 0) + Count(x, Tail(q))

\* the URLs put into the queue at construction
Enqueued == ProcessInput(urls)

InputOnly(S) == \A i \in 1 .. Len(Enqueued) : Enqueued[i] \in S

RowsFor(u) == Cardinality({i \in 1 .. Len(rows) : rows[i][1] = u})

Throttled == MsgThrottled \in stderr

Accepted == Enqueued # <<>> /\ ValidConn(Min(conn, Len(Enqueued)))

AllDequeuedOnce == queue = <<>> /\ \A u \in UrlNames : taken[u] = Count(u, Enqueued)

\* C1: for a non-empty URL set and a clamped concurrency in [1, 10000], when
\* run has returned every enqueued URL has been dequeued exactly once and
\* none is left in the queue, whatever the outcome of each URL.
C1_EveryUrlDequeuedOnce ==
    (mainpc = "done" /\ Accepted /\ InputOnly(UrlNames \ {UrlNoScheme, UrlThrottled}))
    => AllDequeuedOnce

\* C2: run never finishes its pool while URLs are still queued and no
\* Throttled error has been raised.
C2_FinishOnlyDrainedOrThrottled ==
    (mainpc = "done" /\ threads # <<>>) => (queue = <<>> \/ Throttled)

\* C3: from the moment a worker has raised Throttled no worker takes
\* another URL from the queue.
C3_ThrottledStopsDequeues ==
    [][Throttled => queue' = queue]_vars

\* C4: the exit status is 0 exactly when the queue was drained with every
\* URL processed; it is non-zero for an empty input, an invalid concurrency,
\* a URL without scheme and a Throttled worker.
C4_ExitStatus ==
    exitStatus # <<>> =>
        (exitStatus[1] = 0 <=>
            /\ Enqueued # <<>>
            /\ AllDequeuedOnce
            /\ MsgBadConn \notin stderr
            /\ ~Throttled
            /\ \A w \in Workers : threads[w].exc = "none")

\* C5: when the clamped concurrency is outside [1, 10000] run stops at the
\* validation: it never reaches the join loop nor returns normally; and
\* whenever workers exist their number is within [1, 10000].
C5_InvalidConcurrencyStops ==
    /\ MsgBadConn \in stderr => mainpc \notin {"join", "done"}
    /\ mainpc \in {"join", "done"} => ValidConn(Len(threads))

\* C6: with an empty URL set run ends with NoWork before the concurrency
\* check: the check is never reached, no worker exists and the rows of the
\* store never change.
C6_NoWorkFirst ==
    /\ [](Enqueued = <<>> =>
            /\ mainpc \in {"start", "exited"}
            /\ (mainpc = "exited" => MsgNoUrls \in stderr)
            /\ MsgBadConn \notin stderr
            /\ threads = <<>>)
    /\ [][Enqueued = <<>> => rows' = rows]_vars

C6_Witness ==
    Enqueued = <<>> /\ mainpc = "exited" /\ rows # <<>> /\ conn < 1

\* C7: in an accepted run the number of workers is never above
\* min(requested, number of queued URLs) and is exactly that once the spawn
\* loop is over.
C7_SpawnsClamped ==
    Accepted =>
        /\ Len(threads) <= conn
        /\ Len(threads) <= Len(Enqueued)
        /\ (mainpc \in {"join", "done"} => Len(threads) = Min(conn, Len(Enqueued)))

C7_Witness ==
    mainpc = "done" /\ conn = 2 /\ Len(Enqueued) = 1 /\ Len(threads) = 1

\* C8: when the only failures are content errors (undecodable payload,
\* missing field) every URL is still dequeued and every good URL has its
\* row by the time run returns, also with a single worker.
C8_ContentErrorsIsolated ==
    (mainpc = "done" /\ threads # <<>>
        /\ InputOnly({UrlOkA, UrlOkB, UrlBadJson, UrlNoField}))
    => /\ queue = <<>>
       /\ \A u \in {UrlOkA, UrlOkB} : RowsFor(u) >= Count(u, Enqueued)

\* C9: a transport failure of one URL leaves the pool working: the other
\* URLs are all dequeued before run returns, for any worker count.
C9_FetchErrorIsolated ==
    (mainpc = "done" /\ threads # <<>> /\ InputOnly({UrlOkA, UrlOkB, UrlDown}))
    => \A u \in UrlNames : taken[u] = Count(u, Enqueued)

\* C10: when run has returned every spawned worker has ended, and no row
\* is inserted afterwards.
C10_RunWaitsForWorkers ==
    /\ [](mainpc = "done" => \A w \in Workers : threads[w].pc = "exited")
    /\ [][mainpc = "done" => rows' = rows]_vars

C10_Witness ==
    /\ mainpc = "done"
    /\ Len(threads) = 2
    /\ \A w \in Workers : threads[w].url # ""
    /\ RowsFor(UrlOkB) = 1


IsPrefix(p, q) == Len(p) <= Len(q) /\ SubSeq(q, 1, Len(p)) = p

\* the worker w ends its commit in this step
Commits(w) == threads[w].pc = "commit" /\ threads'[w].pc # "commit"

\* C11: the store is append-only and does not deduplicate: every step keeps
\* the existing rows as they are, every commit adds one row also when a row
\* of the same URL exists, and rows of the same URL have the same content.
C11_AppendOnlyNoDedup ==
    /\ [][IsPrefix(rows, rows')]_vars
    /\ [][\A w \in Workers : Commits(w) =>
            /\ Len(rows') = Len(rows) + 1
            /\ rows'[Len(rows')][1] = threads[w].url]_vars
    /\ [](\A i, j \in 1 .. Len(rows) : rows[i][1] = rows[j][1] => rows[i] = rows[j])

\* the URL scraped by an earlier run is scraped again: two identical rows
C11_Witness ==
    /\ mainpc = "done"
    /\ rows0 = <<OldRow>>
    /\ Len(rows) = 2
    /\ rows[2] = rows[1]


\* ------------------------------------------------- end-to-end scenarios
ThreeUrlFile ==
    [isfile |-> TRUE, lines |-> <<UrlLine(UrlOkA), UrlLine(UrlOkB), UrlLine(UrlOkC)>>]

FtpLiteral == [isfile |-> FALSE, lines |-> << <<UrlFtp>> >>]

\* main() called with the default --conn on one of the two scenario inputs
InitScenario ==
    /\ urls \in {ThreeUrlFile, FtpLiteral}
    /\ conn = DefaultConn
    /\ queue = ProcessInput(urls)
    /\ threads = <<>>
    /\ table = TRUE
    /\ rows \in {<<>>, <<OldRow>>}
    /\ rows0 = rows
    /\ mainpc = "start"
    /\ n_conn = 0
    /\ joined = 0
    /\ stderr = {}
    /\ exitStatus = <<>>
    /\ taken = [u \in AllUrls |-> 0]

SpecScenario == InitScenario /\ [][Next]_vars

RowsBefore(u) == Cardinality({i \in 1 .. Len(rows0) : rows0[i][1] = u})

\* C12: with three good URLs and concurrency 10 there are never more than
\* three workers and exactly three once spawning is over; when run has
\* returned each URL has exactly one new row, three in all, and the process
\* ends with status 0 and in no other way.
C12_ThreeUrlsConnTen ==
    (urls = ThreeUrlFile /\ conn = 10) =>
        /\ Len(threads) <= 3
        /\ (mainpc \in {"join", "done"} => Len(threads) = 3)
        /\ (mainpc = "done" =>
              /\ Len(rows) = Len(rows0) + 3
              /\ \A u \in {UrlOkA, UrlOkB, UrlOkC} : RowsFor(u) = RowsBefore(u) + 1)
        /\ (exitStatus # <<>> => mainpc = "done" /\ exitStatus = <<0>>)

C12_Witness ==
    /\ urls = ThreeUrlFile
    /\ mainpc = "done"
    /\ Len(threads) = 3
    /\ \A w \in Workers : threads[w].url # ""
    /\ Len(rows) = 4

\* C13: with the single input ftp://example.com/x the process ends with a
\* non-zero status, the worker is ended by the handler of the malformed
\* URL, and no row is written.
C13_FtpRejected ==
    (urls = FtpLiteral /\ exitStatus # <<>>) =>
        /\ exitStatus[1] # 0
        /\ rows = rows0
        /\ \A w \in Workers : threads[w].exc = "SystemExit"


IsSuffix(p, q) == Len(p) <= Len(q) /\ SubSeq(q, Len(q) - Len(p) + 1, Len(q)) = p

\* C14: once run has started the queue only shrinks, from its head; every
\* enqueued URL is either still queued or has been dequeued, so no URL is
\* ever dequeued more often than it was enqueued, whatever became of it.
C14_QueueOnlyShrinks ==
    /\ [][IsSuffix(queue', queue)]_vars
    /\ [](\A u \in AllUrls : taken[u] + Count(u, queue) = Count(u, Enqueued))

\* a fetch has failed, and the URL was neither re-queued nor taken again
C14_Witness ==
    /\ mainpc = "done"
    /\ \E w \in Workers : threads[w].url = UrlDown /\ threads[w].exc = "ConnectionError"
    /\ Enqueued = <<UrlDown, UrlOkA>>
    /\ queue = <<>>
    /\ taken[UrlDown] = 1


\* the moves of one worker: dequeue, fetch, extract, map and insert, commit
StepOrder ==
    {<<"get", "fetch">>, <<"fetch", "extract">>, <<"extract", "store">>,
     <<"store", "commit">>, <<"commit", "get">>,
     <<"get", "exited">>, <<"fetch", "exited">>, <<"extract", "exited">>,
     <<"store", "exited">>}

GoodUrls == {UrlOkA, UrlOkB, UrlOkC}

Columns == 13

\* the rows this run has committed
NewRows == SubSeq(rows, Len(rows0) + 1, Len(rows))

\* C15: a worker moves only along dequeue, fetch, extract, insert, commit
\* (or ends), and dequeues only when it holds no URL in progress; every row
\* written by the run, committed or not, is a full row of a URL whose fetch,
\* extraction and mapping succeed, so a URL that fails has no row at all.
C15_StepsInOrder ==
    /\ [][\A w \in Workers :
            \/ threads'[w].pc = threads[w].pc
            \/ <<threads[w].pc, threads'[w].pc>> \in StepOrder]_vars
    /\ [][queue' # queue => \E w \in Workers :
            threads[w].pc = "get" /\ threads[w].txn = <<>> /\ threads'[w].pc = "fetch"]_vars
    /\ [](\A i \in 1 .. Len(NewRows) :
            NewRows[i][1] \in GoodUrls /\ Len(NewRows[i]) = Columns)
    /\ [](\A w \in Workers : \A i \in 1 .. Len(threads[w].txn) :
            threads[w].txn[i][1] \in GoodUrls /\ Len(threads[w].txn[i]) = Columns)

\* one URL failed at the mapping and has no row, another one was persisted
C15_Witness ==
    /\ mainpc = "done"
    /\ \E w \in Workers : threads[w].url = UrlNoField /\ threads[w].exc = "AttributeError"
    /\ RowsFor(UrlNoField) = 0
    /\ Len(NewRows) = 1


\* C16: a worker holds at most one uncommitted row, and only between its
\* insert and its commit; the commit moves exactly that row into the table
\* before the worker dequeues again; committed rows are never taken back,
\* also after a worker has hit the throttled page.
C16_CommitPerInsert ==
    /\ [](\A w \in Workers :
            /\ Len(threads[w].txn) <= 1
            /\ (threads[w].txn # <<>> => threads[w].pc = "commit"))
    /\ [][\A w \in Workers : Commits(w) =>
            /\ rows' = rows \o threads[w].txn
            /\ threads'[w].txn = <<>>
            /\ threads'[w].pc = "get"]_vars
    /\ [][Len(rows') >= Len(rows) /\ \A i \in 1 .. Len(rows) : rows'[i] = rows[i]]_vars

\* a worker has hit the throttled page while another one holds an
\* uncommitted insert
C16_Witness ==
    /\ Throttled
    /\ \E w \in Workers : threads[w].pc = "commit" /\ Len(threads[w].txn) = 1
    /\ \E w \in Workers : threads[w].url = UrlThrottled /\ threads[w].pc = "exited"


\* ------------------------------------------- DownloadManager.__init__
\* mutant: the table is created anew, whatever the file held
InitDb_Recreate(t, r) == [table |-> TRUE, rows |-> <<>>]

\* __init_db: create table listings; "already exists" is passed over
InitDb(t, r) == [table |-> TRUE, rows |-> IF t THEN r ELSE <<>>]

\* the constructor: connect, __init_db, __process_input, threads = []
Construct ==
    /\ mainpc = "new"
    /\ table' = InitDb(table, rows).table
    /\ rows' = InitDb(table, rows).rows
    /\ queue' = ProcessInput(urls)
    /\ threads' = <<>>
    /\ mainpc' = "start"
    /\ UNCHANGED <<urls, conn, rows0, n_conn, joined, stderr, exitStatus, taken>>

\* before main() builds the DownloadManager: the database file has no
\* table, an empty table, or the table with a row of an earlier run
InitCtor ==
    /\ urls \in Inputs
    /\ conn \in ConnChoices
    /\ queue = <<>>
    /\ threads = <<>>
    /\ table \in BOOLEAN
    /\ rows \in (IF table THEN {<<>>, <<OldRow>>} ELSE {<<>>})
    /\ rows0 = rows
    /\ mainpc = "new"
    /\ n_conn = 0
    /\ joined = 0
    /\ stderr = {}
    /\ exitStatus = <<>>
    /\ taken = [u \in AllUrls |-> 0]

NextCtor ==
    \/ Construct
    \/ Next

SpecCtor == InitCtor /\ [][NextCtor]_vars

\* C17: the constructor never fails on the schema: it ends with the table
\* present and the rows exactly as they were before (none when the table
\* had to be created), reports nothing, and the rows found at construction
\* stay in the table for the rest of the run.
C17_SchemaIdempotent ==
    /\ [][mainpc = "new" =>
            /\ mainpc' = "start"
            /\ table'
            /\ rows' = rows
            /\ (~table => rows' = <<>>)
            /\ stderr' = stderr
            /\ exitStatus' = <<>>]_vars
    /\ [](mainpc # "new" => table /\ IsPrefix(rows0, rows))

\* the constructor has run against a file that held the table and a row
C17_Witness ==
    mainpc = "start" /\ table /\ rows0 = <<OldRow>> /\ rows = <<OldRow>>


\* the page of u was fetched and has fewer script elements than needed
FewScripts(u) == u \in AllUrls /\ Site(u).error = "none" /\ Len(Site(u).scripts) < 3

\* the page of u has the third script element, and its text does not decode
Undecodable(u) ==
    /\ u \in AllUrls
    /\ Site(u).error = "none"
    /\ Len(Site(u).scripts) >= 3
    /\ ~Site(u).scripts[3].text[5].valid

\* C18: Throttled is signalled exactly for the pages with fewer than three
\* JSON script elements; an undecodable third element is never reported as
\* throttling and only skips its URL: it does not end the worker.
C18_ThrottledIffFewScripts ==
    /\ Throttled <=> \E w \in Workers :
            FewScripts(threads[w].url) /\ threads[w].pc = "exited"
    /\ \A w \in Workers : threads[w].pc = "exited" =>
            (threads[w].exc = "SystemExit" /\ threads[w].url # UrlNoScheme
                <=> FewScripts(threads[w].url))
    /\ \A w \in Workers : Undecodable(threads[w].url) => threads[w].pc # "exited"


\* --------------------------------------------- __store_db on any listing
AmenityNames == {"Wifi", "Pool", "TV"}

AmenityLists ==
    SeqsUpTo({Amenity(n, p) : n \in AmenityNames, p \in BOOLEAN}, MaxAmenities)

\* the worker of a one-URL run has fetched and extracted a listing with any
\* amenity list and is about to call __store_db
InitStore ==
    /\ urls = [isfile |-> TRUE, lines |-> <<UrlLine(UrlOkA)>>]
    /\ conn = 1
    /\ queue = <<>>
    /\ \E ams \in AmenityLists :
         threads = << [pc |-> "store", url |-> UrlOkA, listing |-> FullListing("A", ams),
                       txn |-> <<>>, exc |-> "none"] >>
    /\ table = TRUE
    /\ rows = <<>>
    /\ rows0 = rows
    /\ mainpc = "join"
    /\ n_conn = 1
    /\ joined = 0
    /\ stderr = {}
    /\ exitStatus = <<>>
    /\ taken = [u \in AllUrls |-> IF u = UrlOkA THEN 1 ELSE 0]

NextStore ==
    \/ \E w \in Workers : WorkerInsert(w)
    \/ \E w \in Workers : WorkerCommit(w)
    \/ \E w \in Workers : WorkerGet(w)
    \/ Join
    \/ Return

SpecStore == InitStore /\ [][NextStore]_vars

\* the positions of the amenities whose flag is true
PresentAt(ams) == {i \in 1 .. Len(ams) : ams[i].is_present}

\* the j-th of these positions, in payload order
NthPresent(ams, j) ==
    CHOOSE i \in PresentAt(ams) : Cardinality({m \in PresentAt(ams) : m < i}) = j - 1

\* col is the comma-joined text of exactly the present names, in order
IsPresentNames(col, ams) ==
    LET k == Cardinality(PresentAt(ams)) IN
    /\ Len(col) = (IF k = 0 THEN 0 ELSE 2 * k - 1)
    /\ \A j \in 1 .. k : col[2 * j - 1] = ams[NthPresent(ams, j)].name
    /\ \A j \in 1 .. k - 1 : col[2 * j] = ","

\* C19: the amenity value of every row the worker writes, uncommitted or
\* committed, is exactly the names whose flag is true, in payload order.
C19_AmenitiesArePresentNames ==
    \A w \in Workers :
        /\ \A i \in 1 .. Len(threads[w].txn) :
             IsPresentNames(threads[w].txn[i][Columns], threads[w].listing.listing_amenities)
        /\ \A i \in 1 .. Len(NewRows) :
             IsPresentNames(NewRows[i][Columns], threads[w].listing.listing_amenities)

\* [Wifi present, Pool absent] was stored as [Wifi]
C19_Witness ==
    /\ mainpc = "done"
    /\ threads[1].listing.listing_amenities = <<Amenity("Wifi", TRUE), Amenity("Pool", FALSE)>>
    /\ Len(rows) = 1
    /\ rows[1][Columns] = <<"Wifi">>


RECURSIVE TakenIn(_)
TakenIn(S) ==
    IF S = {} THEN 0
    ELSE LET u == CHOOSE x \in S : TRUE IN taken[u] + TakenIn(S \ {u})

\* the number of URLs dequeued so far
Dequeued == TakenIn(AllUrls)

\* C20: every row appended by the run carries a URL that was dequeued; per
\* URL and in all, the rows appended never exceed the dequeues so far, and
\* the dequeues never exceed the URLs of the input.
C20_RowsWithinDequeues ==
    /\ \A i \in 1 .. Len(NewRows) : taken[NewRows[i][1]] >= 1
    /\ \A u \in AllUrls :
         /\ RowsFor(u) - RowsBefore(u) <= taken[u]
         /\ taken[u] <= Count(u, Enqueued)
    /\ Len(NewRows) <= Dequeued
    /\ Dequeued <= Len(Enqueued)

\* two URLs dequeued, one of them failed: one row only
C20_Witness ==
    /\ mainpc = "done"
    /\ Dequeued = 2
    /\ Len(NewRows) = 1
    /\ \E w \in Workers : threads[w].exc = "JSONDecodeError"

====
